---- MODULE Spec2Model ----
(***************************************************************************)
(* The Snowflake ETL pipeline of projects/snowflake-etl-pipeline:          *)
(*   - DataTransformer (transform.py): clean_data, validate_data,          *)
(*     enrich_data and _calculate_quality_score as operators on batches;   *)
(*   - ETLPipeline.run (main.py) as a state machine, one action per stage, *)
(*     with DataExtractor (extract.py) and SnowflakeLoader (load.py) as    *)
(*     the collaborators it calls.                                         *)
(* Two specifications:                                                     *)
(*   SpecT  applies the transformer's operations to every bounded batch;   *)
(*   Spec   runs the pipeline on one ETLPipeline object, run after run.    *)
(***************************************************************************)
EXTENDS Integers, Sequences, FiniteSets, TLC

\* ---------------------------------------------------------------- bounds
\* rows of a batch handed to the transformer under SpecT
MaxLen == 2
\* rows of a batch a source returns to the pipeline under Spec
MaxSourceRows == 1
\* runs of one ETLPipeline object
MaxRuns == 2
\* rows of the target table before the first run, when it exists
MaxInitRows == 1

\* ---------------------------------------------------------------- values
\* A cell of a DataFrame: null (NaN/None), a number, a string (a sequence of
\* one-character strings), a timestamp, or a decimal held in hundredths.
Null == [k |-> "null", n |-> 0, s |-> <<>>]
Num(i) == [k |-> "num", n |-> i, s |-> <<>>]
Str(s) == [k |-> "str", n |-> 0, s |-> s]
Ts(t) == [k |-> "ts", n |-> t, s |-> <<>>]
Dec(h) == [k |-> "dec", n |-> h, s |-> <<>>]

\* pandas notna()
NotNa(v) == v.k # "null"

\* The cells a source can deliver: a missing value, the number 1, the text
\* "1" and the same text with a leading blank.
Values == {Null, Num(1), Str(<<"1">>), Str(<<" ", "1">>)}

\* no batch: what a call that raised hands back
NoBatch == [cols |-> {}, rows |-> <<>>]

\* The column sets a source can deliver (lower case as read from a file, or
\* already in the warehouse's upper case).
Schemas == {{"NAME"}, {"id", "name"}, {"ID", "NAME"}}

\* The column sets of the files the pipeline is run on.
SourceSchemas == {{"name"}, {"id", "name"}}

\* Batches of at most n rows over the column sets in S.
BatchesOver(S, n) ==
  UNION {UNION {{[cols |-> cs, rows |-> r] : r \in [1..len -> [cs -> Values]]}
                : len \in 0..n}
         : cs \in S}

\* str.upper() on the column names in use
Upper(c) ==
  CASE c = "id" -> "ID"
    [] c = "name" -> "NAME"
    [] OTHER -> c

\* ---------------------------------------------------------------- clean_data
\* str.strip(): leading and trailing blanks removed
RECURSIVE LStrip(_)
LStrip(s) == IF s # <<>> /\ Head(s) = " " THEN LStrip(Tail(s)) ELSE s

RECURSIVE RStrip(_)
RStrip(s) ==
  IF s # <<>> /\ s[Len(s)] = " " THEN RStrip(SubSeq(s, 1, Len(s) - 1)) ELSE s

Strip(s) == RStrip(LStrip(s))

\* Series.str.strip() on one cell of an object column: a string is stripped,
\* anything that is not a string becomes null.
StrAccessorStrip(v) == IF v.k = "str" THEN Str(Strip(v.s)) ELSE Null

\* DataFrame.drop_duplicates(): the first of equal rows is kept
RECURSIVE DropDuplicates(_)
DropDuplicates(rows) ==
  IF rows = <<>> THEN <<>>
  ELSE LET init == SubSeq(rows, 1, Len(rows) - 1)
           last == rows[Len(rows)]
       IN IF \E j \in 1..Len(init) : init[j] = last
          THEN DropDuplicates(init)
          ELSE Append(DropDuplicates(init), last)

\* select_dtypes(include=['object']): the columns that hold a string
StringColumns(cols, rows) ==
  {c \in cols : \E i \in 1..Len(rows) : rows[i][c].k = "str"}

\* DataTransformer.clean_data: drop duplicates, then strip the string
\* columns, then upper-case the column names.
CleanData(df) ==
  LET deduped == DropDuplicates(df.rows)
      string_columns == StringColumns(df.cols, deduped)
      stripped == [i \in 1..Len(deduped) |->
                     [c \in df.cols |->
                        IF c \in string_columns
                        THEN StrAccessorStrip(deduped[i][c])
                        ELSE deduped[i][c]]]
      upper == {Upper(c) : c \in df.cols}
  IN [cols |-> upper,
      rows |-> [i \in 1..Len(stripped) |->
                  [u \in upper |->
                     stripped[i][CHOOSE c \in df.cols : Upper(c) = u]]]]

\* ---------------------------------------------------------------- validate_data
\* The rule names the validation rules are written over.
RuleNames == {"ID", "NAME"}

\* The lists of distinct rule names, in every order (a Python list).
NameLists ==
  {<<>>} \cup {<<a>> : a \in RuleNames}
         \cup {<<a, b>> : <<a, b>> \in {p \in RuleNames \X RuleNames : p[1] # p[2]}}

\* The data_types mappings drawn: column -> dtype, "money" being no dtype.
DataTypeChoices ==
  {[c \in {} |-> "int"],
   [c \in {"ID"} |-> "int"],
   [c \in {"NAME"} |-> "int"],
   [c \in {"NAME"} |-> "money"],
   [c \in {"ID", "NAME"} |-> "int"]}

\* A rules dictionary: the keys it has and their values (a key it lacks keeps
\* the empty value, which validate_data never reads).
RuleSets ==
  {r \in [keys : SUBSET {"required_columns", "not_null_columns", "data_types"},
          required_columns : SUBSET RuleNames,
          not_null_columns : NameLists,
          data_types : DataTypeChoices] :
     /\ "required_columns" \notin r.keys => r.required_columns = {}
     /\ "not_null_columns" \notin r.keys => r.not_null_columns = <<>>
     /\ "data_types" \notin r.keys => r.data_types = <<>>}

\* the empty dictionary {}
EmptyRules ==
  [keys |-> {}, required_columns |-> {}, not_null_columns |-> <<>>,
   data_types |-> <<>>]

\* a loop that leaves after the first listed column
NotNullFirstOnly(cols, rows, todo) ==
  IF todo = <<>> THEN [status |-> "ok", rows |-> rows]
  ELSE IF \E i \in 1..Len(todo) : todo[i] \notin cols
  THEN [status |-> "KeyError", rows |-> rows]
  ELSE LET Keep(r) == NotNa(r[Head(todo)])
       IN [status |-> "ok", rows |-> SelectSeq(rows, Keep)]

\* for col in rules['not_null_columns']:
\*     validated_df = validated_df[validated_df[col].notna()]
\* validated_df[col] raises KeyError for a column the frame lacks.
RECURSIVE NotNullLoop(_, _, _)
NotNullLoop(cols, rows, todo) ==
  IF todo = <<>> THEN [status |-> "ok", rows |-> rows]
  ELSE IF Head(todo) \notin cols THEN [status |-> "KeyError", rows |-> rows]
  ELSE LET Keep(r) == NotNa(r[Head(todo)])
       IN NotNullLoop(cols, SelectSeq(rows, Keep), Tail(todo))

DigitSeq == <<"0", "1", "2", "3", "4", "5", "6", "7", "8", "9">>

IsDigits(s) ==
  s # <<>> /\ \A i \in 1..Len(s) : \E d \in 1..Len(DigitSeq) : DigitSeq[d] = s[i]

RECURSIVE ParseInt(_)
ParseInt(s) ==
  IF s = <<>> THEN 0
  ELSE 10 * ParseInt(SubSeq(s, 1, Len(s) - 1))
       + (CHOOSE d \in 1..Len(DigitSeq) : DigitSeq[d] = s[Len(s)]) - 1

\* Series.astype(dtype) on one cell: int() of a number, or of a string of
\* digits with blanks around it; a null or any other string cannot be cast.
CanCast(v, dtype) ==
  /\ dtype = "int"
  /\ \/ v.k = "num"
     \/ v.k = "str" /\ IsDigits(Strip(v.s))

Cast(v) == IF v.k = "str" THEN Num(ParseInt(Strip(v.s))) ELSE v

\* a conversion that creates, as a column of nulls, a column the frame lacks
CoerceTypesAddsColumn(cols, rows, data_types) ==
  LET Converts(c) ==
        /\ c \in DOMAIN data_types /\ c \in cols
        /\ \A i \in 1..Len(rows) : CanCast(rows[i][c], data_types[c])
  IN [i \in 1..Len(rows) |->
        [c \in cols \cup DOMAIN data_types |->
           IF c \notin cols THEN Null
           ELSE IF Converts(c) THEN Cast(rows[i][c]) ELSE rows[i][c]]]

\* for col, dtype in rules['data_types'].items():
\*     try: validated_df[col] = validated_df[col].astype(dtype)
\*     except Exception: logger.warning(...)
\* A column is converted as a whole or, on any exception (a column the frame
\* lacks, an unknown dtype, a cell that cannot be cast), left as it is.
CoerceTypes(cols, rows, data_types) ==
  LET Converts(c) ==
        /\ c \in DOMAIN data_types
        /\ \A i \in 1..Len(rows) : CanCast(rows[i][c], data_types[c])
  IN [i \in 1..Len(rows) |->
        [c \in cols |-> IF Converts(c) THEN Cast(rows[i][c]) ELSE rows[i][c]]]

\* validate_data with the required-columns check after the not-null filter
ValidateDataFilterFirst(df, rules) ==
  LET missing_cols ==
        IF "required_columns" \in rules.keys
        THEN rules.required_columns \ df.cols ELSE {}
      filtered ==
        IF "not_null_columns" \in rules.keys
        THEN NotNullLoop(df.cols, df.rows, rules.not_null_columns)
        ELSE [status |-> "ok", rows |-> df.rows]
      coerced ==
        IF "data_types" \in rules.keys
        THEN CoerceTypes(df.cols, filtered.rows, rules.data_types)
        ELSE filtered.rows
  IN IF filtered.status # "ok"
     THEN [status |-> "KeyError", missing |-> {}, df |-> NoBatch]
     ELSE IF missing_cols # {}
     THEN [status |-> "ValueError", missing |-> missing_cols, df |-> NoBatch]
     ELSE [status |-> "ok", missing |-> {},
           df |-> [cols |-> df.cols, rows |-> coerced]]

\* DataTransformer.validate_data: the outcome ("ok", or the exception that
\* leaves the call), the names a ValueError reports, and the frame returned.
ValidateData(df, rules) ==
  LET missing_cols ==
        IF "required_columns" \in rules.keys
        THEN rules.required_columns \ df.cols ELSE {}
      filtered ==
        IF "not_null_columns" \in rules.keys
        THEN NotNullLoop(df.cols, df.rows, rules.not_null_columns)
        ELSE [status |-> "ok", rows |-> df.rows]
      coerced ==
        IF "data_types" \in rules.keys
        THEN CoerceTypes(df.cols, filtered.rows, rules.data_types)
        ELSE filtered.rows
  IN IF missing_cols # {}
     THEN [status |-> "ValueError", missing |-> missing_cols, df |-> NoBatch]
     ELSE IF filtered.status # "ok"
     THEN [status |-> "KeyError", missing |-> {}, df |-> NoBatch]
     ELSE [status |-> "ok", missing |-> {},
           df |-> [cols |-> df.cols, rows |-> coerced]]

\* ---------------------------------------------------------------- enrich_data
\* round(x, 2) of x = 100 * k / n, in hundredths (numpy rounds half to even)
RoundPercent(k, n) ==
  LET q == (10000 * k) \div n
      r == (10000 * k) % n
  IN IF 2 * r > n \/ (2 * r = n /\ q % 2 = 1) THEN q + 1 ELSE q

\* DataTransformer._calculate_quality_score: per row, the non-null cells over
\* the number of columns of the frame it is given, as a percentage.
CalculateQualityScore(df) ==
  LET total_columns == Cardinality(df.cols)
      non_null_counts ==
        [i \in 1..Len(df.rows) |->
           Cardinality({c \in df.cols : NotNa(df.rows[i][c])})]
  IN [i \in 1..Len(df.rows) |->
        Dec(RoundPercent(non_null_counts[i], total_columns))]

\* df[name] = value(s): the column is added, or overwritten when present
WithColumn(df, name, cells) ==
  [cols |-> df.cols \cup {name},
   rows |-> [i \in 1..Len(df.rows) |->
               [c \in df.cols \cup {name} |->
                  IF c = name THEN cells[i] ELSE df.rows[i][c]]]]

\* DataTransformer.enrich_data at the time `now`: the timestamp column is
\* added first, the score is computed on the frame that already has it.
EnrichData(df, now) ==
  LET stamped == WithColumn(df, "PROCESSED_AT",
                            [i \in 1..Len(df.rows) |-> Ts(now)])
  IN WithColumn(stamped, "DATA_QUALITY_SCORE", CalculateQualityScore(stamped))

\* the values datetime.now() takes
Times == {1, 2}

\* ---------------------------------------------------------------- state
VARIABLES
  \* SpecT: one call of a transformer operation
  op,              \* "idle" | "init" | "clean" | "clean2" | "validate" | "enrich"
  df,              \* the batch the operation is given
  rules,           \* the rules validate_data is given
  result,          \* what the call produced: status, missing, df
  result2,         \* what clean_data produced when given result.df again
  \* Spec: ETLPipeline.run on one pipeline object
  pc,              \* the statement of run() control is at, "idle" outside a run
  runs,            \* runs started on this object
  config,          \* self.config
  source_type,     \* run()'s argument
  raw_data, cleaned_data, validated_data, enriched_data,
  conn,            \* self.loader.conn: "None" | "open" | "closed"
  opened,          \* connect() succeeded during this run
  table,           \* the target table in the warehouse: exists, rows
  initial_count, final_count, rows_added,
  precount_result, \* the pre-load count query: "none" | "ok" | "no_table" | "failed"
  write_request,   \* what load_dataframe was asked to write, and how
  write_result,    \* "none" | "ok" | "false" | "raise"
  written,         \* rows the sink wrote in this run
  error,           \* the exception in flight, "none" when there is none
  outcome,         \* how the last run left: "none" | "returned" | "raised"
  trace            \* the collaborator and transformer calls of this run

tvars == <<op, df, rules, result, result2>>
pvars == <<pc, runs, config, source_type, raw_data, cleaned_data,
           validated_data, enriched_data, conn, opened, table, initial_count,
           final_count, rows_added, precount_result, write_request,
           write_result, written, error, outcome, trace>>
vars == <<tvars, pvars>>

NoResult == [status |-> "none", missing |-> {}, df |-> NoBatch]
Ok(b) == [status |-> "ok", missing |-> {}, df |-> b]
NoRequest == [df |-> NoBatch, if_exists |-> "none", create_table |-> FALSE]

\* the configurations an ETLPipeline is constructed with: no
\* 'required_columns' key, or a list of names under it
ConfigChoices ==
  {[keys |-> {}, required_columns |-> <<>>]}
  \cup {[keys |-> {"required_columns"}, required_columns |-> l] :
          l \in {<<>>, <<"NAME">>, <<"ID", "NAME">>}}

\* the source kinds a caller passes
SourceTypes == {"csv", "json", "api", "xml"}

\* the target table before the first run
TableChoices ==
  {[exists |-> FALSE, rows |-> 0]}
  \cup {[exists |-> TRUE, rows |-> n] : n \in 0..MaxInitRows}

\* the locals of run() at its start
RunLocals ==
  /\ raw_data = NoBatch /\ cleaned_data = NoBatch
  /\ validated_data = NoBatch /\ enriched_data = NoBatch
  /\ opened = FALSE
  /\ initial_count = 0 /\ final_count = 0 /\ rows_added = 0
  /\ precount_result = "none" /\ write_request = NoRequest
  /\ write_result = "none" /\ written = 0
  /\ error = "none" /\ trace = <<>>

\* ETLPipeline.__init__ and SnowflakeLoader.__init__: no connection yet
PipelineConstructed(c, t) ==
  /\ pc = "idle" /\ runs = 0 /\ config = c /\ source_type = "none"
  /\ conn = "None" /\ table = t /\ outcome = "none"
  /\ RunLocals

TransformerIdle ==
  /\ op = "idle" /\ df = NoBatch /\ rules = EmptyRules
  /\ result = NoResult /\ result2 = NoResult

\* ---------------------------------------------------------------- SpecT
InitT ==
  /\ op = "init" /\ df \in BatchesOver(Schemas, MaxLen) /\ rules = EmptyRules
  /\ result = NoResult /\ result2 = NoResult
  /\ PipelineConstructed([keys |-> {}, required_columns |-> <<>>],
                         [exists |-> FALSE, rows |-> 0])

CallClean ==
  /\ op = "init"
  /\ op' = "clean"
  /\ result' = Ok(CleanData(df))
  /\ UNCHANGED <<df, rules, result2, pvars>>

\* clean_data on the batch clean_data returned
CallCleanAgain ==
  /\ op = "clean"
  /\ op' = "clean2"
  /\ result2' = Ok(CleanData(result.df))
  /\ UNCHANGED <<df, rules, result, pvars>>

CallValidate ==
  /\ op = "init"
  /\ \E r \in RuleSets :
       /\ rules' = r
       /\ result' = ValidateData(df, r)
  /\ op' = "validate"
  /\ UNCHANGED <<df, result2, pvars>>

CallEnrich ==
  /\ op = "init"
  /\ \E now \in Times : result' = Ok(EnrichData(df, now))
  /\ op' = "enrich"
  /\ UNCHANGED <<df, rules, result2, pvars>>

NextT == CallClean \/ CallCleanAgain \/ CallValidate \/ CallEnrich

SpecT == InitT /\ [][NextT]_vars

\* ---------------------------------------------------------------- claims on the transformer
Range(l) == {l[i] : i \in 1..Len(l)}

\* C6: clean is idempotent: clean_data applied to its own output returns it
\* unchanged (in particular no two equal records are left in the output).
C6_CleanIdempotent == op = "clean2" => result2.df = result.df

\* C7: enrich_data gives every record the score 100*k/n rounded to 2
\* decimals, k its non-null fields and n its fields before PROCESSED_AT and
\* DATA_QUALITY_SCORE are added.
C7_ScoreOverInputFields ==
  op = "enrich" =>
    \A i \in 1..Len(df.rows) :
      LET k == Cardinality({c \in df.cols : NotNa(df.rows[i][c])})
          n == Cardinality(df.cols)
      IN result.df.rows[i]["DATA_QUALITY_SCORE"] = Dec(RoundPercent(k, n))

\* C8: validate_data fails with the schema error exactly when a required
\* column is absent from the batch, the error names exactly the required
\* names the batch lacks, and no batch is returned; the check comes before
\* any pruning, so a listed not-null column the batch lacks does not get to
\* raise first.
C8_SchemaError ==
  op = "validate" =>
    LET required == IF "required_columns" \in rules.keys
                    THEN rules.required_columns ELSE {}
    IN /\ result.status = "ValueError" <=> (\E c \in required : c \notin df.cols)
       /\ result.status = "ValueError" =>
            /\ result.missing = required \ df.cols
            /\ result.df = NoBatch

C8_Witness ==
  /\ op = "validate" /\ result.status = "ValueError"
  /\ df.cols = {"NAME"} /\ Len(df.rows) = MaxLen
  /\ rules.required_columns = {"ID", "NAME"} /\ result.missing = {"ID"}
  /\ rules.not_null_columns = <<"ID">>

\* C9: the records validate_data returns are exactly the input records that
\* are non-null in every listed not-null column, in their input order (a
\* column under data_types may have been cast), and every order of the
\* listed columns gives the same result.
C9_NotNullFilter ==
  (op = "validate" /\ result.status = "ok") =>
    LET listed == Range(rules.not_null_columns)
        Keep(r) == \A c \in listed : NotNa(r[c])
        expect == SelectSeq(df.rows, Keep)
        cast == IF "data_types" \in rules.keys
                THEN DOMAIN rules.data_types ELSE {}
    IN /\ Len(result.df.rows) = Len(expect)
       /\ \A i \in 1..Len(expect) : \A c \in df.cols \ cast :
            result.df.rows[i][c] = expect[i][c]
       /\ cast = {} => result.df.rows = expect
       /\ \A l \in NameLists :
            Range(l) = listed =>
              ValidateData(df, [rules EXCEPT !.not_null_columns = l]) = result

C9_Witness ==
  /\ op = "validate" /\ result.status = "ok"
  /\ Len(rules.not_null_columns) = 2
  /\ Len(df.rows) = 2 /\ Len(result.df.rows) = 1
  /\ ~NotNa(df.rows[1][rules.not_null_columns[2]])
  /\ NotNa(df.rows[1][rules.not_null_columns[1]])
  /\ result.df.rows[1] = df.rows[2]

\* C10: when validate_data returns, its output has at most as many records
\* as its input and exactly the input's fields, and with the empty rule set
\* the output is the input.
C10_ShrinksKeepsFields ==
  (op = "validate" /\ result.status = "ok") =>
    /\ Len(result.df.rows) <= Len(df.rows)
    /\ result.df.cols = df.cols
    /\ \A i \in 1..Len(result.df.rows) : DOMAIN result.df.rows[i] = df.cols
    /\ rules = EmptyRules => result.df = df

C10_Witness ==
  /\ op = "validate" /\ result.status = "ok"
  /\ Len(result.df.rows) < Len(df.rows) /\ Len(result.df.rows) >= 1
  /\ "data_types" \in rules.keys
  /\ \E c \in DOMAIN rules.data_types : c \notin df.cols
  /\ \E c \in DOMAIN rules.data_types :
       /\ c \in df.cols /\ result.df.rows[1][c].k = "num"
       /\ \A i \in 1..Len(df.rows) : df.rows[i][c].k # "num"

\* ---------------------------------------------------------------- Spec: ETLPipeline.run
Init ==
  /\ TransformerIdle
  /\ \E c \in ConfigChoices : \E t \in TableChoices : PipelineConstructed(c, t)

\* what a source hands back: a batch, or "raise" (no file, bad content)
Raise == [cols |-> {"raise"}, rows |-> <<>>]
ExtractOutcomes == {Raise} \cup BatchesOver(SourceSchemas, MaxSourceRows)

\* DataExtractor.extract_csv / extract_json: the reader's result is returned,
\* its exception logged and raised again.
ExtractCall(name) ==
  /\ trace' = Append(trace, name)
  /\ \E r \in ExtractOutcomes :
       IF r = Raise
       THEN /\ error' = "ExtractError" /\ pc' = "except"
            /\ UNCHANGED raw_data
       ELSE /\ raw_data' = r /\ pc' = "clean"
            /\ UNCHANGED error

\* a caller enters run(source_path, target_table, source_type)
Run ==
  /\ pc = "idle" /\ runs < MaxRuns
  /\ runs' = runs + 1
  /\ \E st \in SourceTypes : source_type' = st
  /\ pc' = "extract"
  /\ outcome' = "none"
  /\ raw_data' = NoBatch /\ cleaned_data' = NoBatch
  /\ validated_data' = NoBatch /\ enriched_data' = NoBatch
  /\ opened' = FALSE
  /\ initial_count' = 0 /\ final_count' = 0 /\ rows_added' = 0
  /\ precount_result' = "none" /\ write_request' = NoRequest
  /\ write_result' = "none" /\ written' = 0
  /\ error' = "none" /\ trace' = <<>>
  /\ UNCHANGED <<config, conn, table, tvars>>

\* an else branch that reads the source as CSV instead of raising
ExtractDefaultsToCsv ==
  /\ pc = "extract"
  /\ IF source_type = "json" THEN ExtractCall("extract_json")
     ELSE ExtractCall("extract_csv")
  /\ UNCHANGED <<runs, config, source_type, cleaned_data, validated_data,
                 enriched_data, conn, opened, table, initial_count,
                 final_count, rows_added, precount_result, write_request,
                 write_result, written, outcome, tvars>>

\* STEP 1: the if / elif / else on source_type
Extract ==
  /\ pc = "extract"
  /\ IF source_type = "csv" THEN ExtractCall("extract_csv")
     ELSE IF source_type = "json" THEN ExtractCall("extract_json")
     ELSE /\ error' = "ValueError: Unsupported source type"
          /\ pc' = "except"
          /\ UNCHANGED <<raw_data, trace>>
  /\ UNCHANGED <<runs, config, source_type, cleaned_data, validated_data,
                 enriched_data, conn, opened, table, initial_count,
                 final_count, rows_added, precount_result, write_request,
                 write_result, written, outcome, tvars>>

\* STEP 2: cleaned_data = self.transformer.clean_data(raw_data)
Clean ==
  /\ pc = "clean"
  /\ cleaned_data' = CleanData(raw_data)
  /\ trace' = Append(trace, "clean_data")
  /\ pc' = "validate"
  /\ UNCHANGED <<runs, config, source_type, raw_data, validated_data,
                 enriched_data, conn, opened, table, initial_count,
                 final_count, rows_added, precount_result, write_request,
                 write_result, written, error, outcome, tvars>>

\* self.config.get('required_columns', [])
ConfigRequiredColumns ==
  IF "required_columns" \in config.keys THEN config.required_columns ELSE <<>>

\* validation_rules = {'not_null_columns': self.config.get('required_columns', [])}
ValidationRules ==
  [keys |-> {"not_null_columns"}, required_columns |-> {},
   not_null_columns |-> ConfigRequiredColumns, data_types |-> <<>>]

\* a validation failure that is recorded and passed over: the run goes on
\* with the cleaned batch
ValidateContinuesOnError ==
  /\ pc = "validate"
  /\ IF ValidationRules.not_null_columns # <<>>
     THEN LET r == ValidateData(cleaned_data, ValidationRules)
          IN /\ trace' = Append(trace, "validate_data")
             /\ pc' = "enrich"
             /\ IF r.status = "ok"
                THEN validated_data' = r.df /\ UNCHANGED error
                ELSE validated_data' = cleaned_data /\ error' = r.status
     ELSE /\ validated_data' = cleaned_data /\ pc' = "enrich"
          /\ UNCHANGED <<error, trace>>
  /\ UNCHANGED <<runs, config, source_type, raw_data, cleaned_data,
                 enriched_data, conn, opened, table, initial_count,
                 final_count, rows_added, precount_result, write_request,
                 write_result, written, outcome, tvars>>

\* validate_data is called when the list is not empty, an exception of it
\* leaves the try block; otherwise validated_data = cleaned_data
Validate ==
  /\ pc = "validate"
  /\ IF ValidationRules.not_null_columns # <<>>
     THEN LET r == ValidateData(cleaned_data, ValidationRules)
          IN /\ trace' = Append(trace, "validate_data")
             /\ IF r.status = "ok"
                THEN /\ validated_data' = r.df /\ pc' = "enrich"
                     /\ UNCHANGED error
                ELSE /\ error' = r.status /\ pc' = "except"
                     /\ UNCHANGED validated_data
     ELSE /\ validated_data' = cleaned_data /\ pc' = "enrich"
          /\ UNCHANGED <<error, trace>>
  /\ UNCHANGED <<runs, config, source_type, raw_data, cleaned_data,
                 enriched_data, conn, opened, table, initial_count,
                 final_count, rows_added, precount_result, write_request,
                 write_result, written, outcome, tvars>>

\* enriched_data = self.transformer.enrich_data(validated_data); the clock
\* reads later in each run
Enrich ==
  /\ pc = "enrich"
  /\ enriched_data' = EnrichData(validated_data, runs)
  /\ trace' = Append(trace, "enrich_data")
  /\ pc' = "connect"
  /\ UNCHANGED <<runs, config, source_type, raw_data, cleaned_data,
                 validated_data, conn, opened, table, initial_count,
                 final_count, rows_added, precount_result, write_request,
                 write_result, written, error, outcome, tvars>>

\* STEP 3: self.loader.connect(): the connection is kept, or the
\* connector's exception is logged and raised again
Connect ==
  /\ pc = "connect"
  /\ trace' = Append(trace, "connect")
  /\ \E ok \in BOOLEAN :
       IF ok
       THEN /\ conn' = "open" /\ opened' = TRUE /\ pc' = "precount"
            /\ UNCHANGED error
       ELSE /\ error' = "ConnectError" /\ pc' = "except"
            /\ UNCHANGED <<conn, opened>>
  /\ UNCHANGED <<runs, config, source_type, raw_data, cleaned_data,
                 validated_data, enriched_data, table, initial_count,
                 final_count, rows_added, precount_result, write_request,
                 write_result, written, outcome, tvars>>

\* SnowflakeLoader.get_row_count: the count of an existing table, or an
\* exception: always for a table that does not exist, and whenever the query
\* itself fails.
RowCountOutcomes ==
  IF table.exists THEN {"ok", "failed"} ELSE {"no_table"}

\* the pre-load count without its try / except: a failed query fails the run
PreCountRaises ==
  /\ pc = "precount"
  /\ trace' = Append(trace, "get_row_count")
  /\ \E r \in RowCountOutcomes :
       /\ precount_result' = r
       /\ IF r = "ok"
          THEN /\ initial_count' = table.rows /\ pc' = "load"
               /\ UNCHANGED error
          ELSE /\ error' = "QueryError" /\ pc' = "except"
               /\ UNCHANGED initial_count
  /\ UNCHANGED <<runs, config, source_type, raw_data, cleaned_data,
                 validated_data, enriched_data, conn, opened, table,
                 final_count, rows_added, write_request, write_result,
                 written, outcome, tvars>>

\* try: initial_count = get_row_count(target_table)  except: initial_count = 0
PreCount ==
  /\ pc = "precount"
  /\ trace' = Append(trace, "get_row_count")
  /\ \E r \in RowCountOutcomes :
       /\ precount_result' = r
       /\ initial_count' = IF r = "ok" THEN table.rows ELSE 0
  /\ pc' = "load"
  /\ UNCHANGED <<runs, config, source_type, raw_data, cleaned_data,
                 validated_data, enriched_data, conn, opened, table,
                 final_count, rows_added, write_request, write_result,
                 written, error, outcome, tvars>>

\* write_pandas(conn, df, table, auto_create_table, overwrite): all rows are
\* written ("ok"), the sink reports no success ("false"), or it raises; a
\* table that does not exist can be written only when it may be created.
WriteOutcomes(create_table) ==
  IF table.exists \/ create_table THEN {"ok", "false", "raise"}
  ELSE {"raise"}

\* a run that goes on to the post-load count whatever the write reported
LoadDataframeThenVerify(b, if_exists, create_table) ==
  /\ trace' = Append(trace, "load_dataframe")
  /\ write_request' =
       [df |-> b, if_exists |-> if_exists, create_table |-> create_table]
  /\ conn' = IF conn = "None" THEN "open" ELSE conn
  /\ \E w \in WriteOutcomes(create_table) :
       /\ write_result' = w
       /\ IF w = "ok"
          THEN /\ table' = [exists |-> TRUE,
                            rows |-> (IF if_exists = "replace" THEN 0
                                      ELSE table.rows) + Len(b.rows)]
               /\ written' = Len(b.rows)
               /\ pc' = "verify"
               /\ UNCHANGED error
          ELSE IF w = "false"
          THEN /\ pc' = IF table.exists THEN "verify" ELSE "finally"
               /\ UNCHANGED <<table, written, error>>
          ELSE /\ error' = "LoadError" /\ pc' = "except"
               /\ UNCHANGED <<table, written>>

\* SnowflakeLoader.load_dataframe and run()'s `if success` after it
LoadDataframe(b, if_exists, create_table) ==
  /\ trace' = Append(trace, "load_dataframe")
  /\ write_request' =
       [df |-> b, if_exists |-> if_exists, create_table |-> create_table]
  /\ conn' = IF conn = "None" THEN "open" ELSE conn
  /\ \E w \in WriteOutcomes(create_table) :
       /\ write_result' = w
       /\ IF w = "ok"
          THEN /\ table' = [exists |-> TRUE,
                            rows |-> (IF if_exists = "replace" THEN 0
                                      ELSE table.rows) + Len(b.rows)]
               /\ written' = Len(b.rows)
               /\ pc' = "verify"
               /\ UNCHANGED error
          ELSE IF w = "false"
          THEN /\ pc' = "finally"
               /\ UNCHANGED <<table, written, error>>
          ELSE /\ error' = "LoadError" /\ pc' = "except"
               /\ UNCHANGED <<table, written>>

Load ==
  /\ pc = "load"
  /\ LoadDataframe(enriched_data, "append", TRUE)
  /\ UNCHANGED <<runs, config, source_type, raw_data, cleaned_data,
                 validated_data, enriched_data, opened, initial_count,
                 final_count, rows_added, precount_result, outcome, tvars>>

\* final_count = get_row_count(target_table); rows_added = final - initial
Verify ==
  /\ pc = "verify"
  /\ trace' = Append(trace, "get_row_count")
  /\ \E r \in RowCountOutcomes :
       IF r = "ok"
       THEN /\ final_count' = table.rows
            /\ rows_added' = table.rows - initial_count
            /\ pc' = "finally"
            /\ UNCHANGED error
       ELSE /\ error' = "QueryError" /\ pc' = "except"
            /\ UNCHANGED <<final_count, rows_added>>
  /\ UNCHANGED <<runs, config, source_type, raw_data, cleaned_data,
                 validated_data, enriched_data, conn, opened, table,
                 initial_count, precount_result, write_request, write_result,
                 written, outcome, tvars>>

\* except Exception as e: logger.error(...); raise
Except ==
  /\ pc = "except"
  /\ pc' = "finally"
  /\ UNCHANGED <<runs, config, source_type, raw_data, cleaned_data,
                 validated_data, enriched_data, conn, opened, table,
                 initial_count, final_count, rows_added, precount_result,
                 write_request, write_result, written, error, outcome, trace,
                 tvars>>

\* disconnect() at the end of the try block instead of in finally: a run that
\* raised skips it
DisconnectUnlessRaised ==
  IF error = "none"
  THEN /\ trace' = Append(trace, "disconnect")
       /\ conn' = IF conn # "None" THEN "closed" ELSE conn
  ELSE UNCHANGED <<trace, conn>>

\* SnowflakeLoader.disconnect: if self.conn: self.conn.close()
Disconnect ==
  /\ trace' = Append(trace, "disconnect")
  /\ conn' = IF conn # "None" THEN "closed" ELSE conn

\* finally: self.loader.disconnect(); then run() returns, or the exception
\* in flight reaches the caller
Finally ==
  /\ pc = "finally"
  /\ Disconnect
  /\ outcome' = IF error = "none" THEN "returned" ELSE "raised"
  /\ pc' = "idle"
  /\ UNCHANGED <<runs, config, source_type, raw_data, cleaned_data,
                 validated_data, enriched_data, opened, table, initial_count,
                 final_count, rows_added, precount_result, write_request,
                 write_result, written, error, tvars>>

Next ==
  \/ Run \/ Extract \/ Clean \/ Validate \/ Enrich \/ Connect \/ PreCount
  \/ Load \/ Verify \/ Except \/ Finally

Spec == Init /\ [][Next]_vars

\* ---------------------------------------------------------------- claims on the pipeline
Returned == pc = "idle" /\ outcome # "none"

SinkAndSourceCalls ==
  {"extract_csv", "extract_json", "connect", "get_row_count", "load_dataframe"}

\* C1: whenever a run has left run(), by returning or by raising, the last
\* thing it did was the sink's disconnect, and a connection opened during the
\* run is closed.
C1_DisconnectBeforeReturn ==
  Returned =>
    /\ trace # <<>> /\ trace[Len(trace)] = "disconnect"
    /\ opened => conn = "closed"

C1_Witness ==
  /\ Returned /\ outcome = "raised" /\ error = "LoadError"
  /\ opened /\ conn = "closed" /\ trace[Len(trace)] = "disconnect"

\* C2: a run whose sink write failed, by raising or by returning an
\* unsuccessful result, never returns normally: it raises to its caller.
C2_FailedWriteRaises ==
  (Returned /\ write_result \in {"false", "raise"}) => outcome = "raised"

\* C3: a run with an unsupported source_type raises the configuration error
\* and calls neither a source reader nor the sink's connect, row count or
\* write.
C3_UnsupportedKindNoCalls ==
  (runs > 0 /\ source_type \notin {"csv", "json", "api"}) =>
    /\ \A i \in 1..Len(trace) : trace[i] \notin SinkAndSourceCalls
    /\ write_request = NoRequest /\ ~opened
    /\ pc \in {"extract", "except", "finally", "idle"}
    /\ pc # "extract" => error = "ValueError: Unsupported source type"
    /\ pc = "idle" => outcome = "raised"

C3_Witness ==
  /\ source_type = "xml" /\ Returned /\ outcome = "raised"
  /\ runs = 2 /\ conn = "closed" /\ trace = <<"disconnect">>

\* C4: for each of csv, json and api the EXTRACT step calls the source
\* reader and is not rejected as an unsupported kind.
C4_ThreeKindsExtract ==
  (runs > 0 /\ pc # "extract" /\ source_type \in {"csv", "json", "api"}) =>
    /\ error # "ValueError: Unsupported source type"
    /\ trace # <<>> /\ trace[1] \in {"extract_csv", "extract_json", "extract_from_api"}

\* C5: in a run that completes in append mode, rows_added equals the rows
\* the sink wrote, however the pre-load count query ended.
C5_RowsAddedEqualsWritten ==
  (Returned /\ outcome = "returned" /\ write_result = "ok"
     /\ write_request.if_exists = "append") =>
    rows_added = written

\* C11: VALIDATE runs exactly when the configuration lists a name; a listed
\* name the cleaned batch lacks fails the run with the schema error (the
\* ValueError that names the missing columns); with nothing listed ENRICH is
\* given the cleaned batch itself.
C11_RequiredColumnsEnforced ==
  ("clean_data" \in Range(trace) /\ pc # "validate") =>
    /\ "validate_data" \in Range(trace) <=> ConfigRequiredColumns # <<>>
    /\ (\E c \in Range(ConfigRequiredColumns) : c \notin cleaned_data.cols) =>
         /\ error = "ValueError"
         /\ Returned => outcome = "raised"
    /\ (ConfigRequiredColumns = <<>> /\ "enrich_data" \in Range(trace)) =>
         validated_data = cleaned_data

\* the calls of a run that completes every stage, in the order of the
\* stages: EXTRACT, CLEAN, VALIDATE when rules are configured, ENRICH, the
\* connect, pre-load count and write of LOAD, the count of VERIFY
StageCalls(extract, validated) ==
  <<extract, "clean_data">>
  \o (IF validated THEN <<"validate_data">> ELSE <<>>)
  \o <<"enrich_data", "connect", "get_row_count", "load_dataframe",
       "get_row_count">>

IsPrefix(a, b) == Len(a) <= Len(b) /\ a = SubSeq(b, 1, Len(a))

\* the calls of the run so far, the closing disconnect left out
StagesDone ==
  IF trace # <<>> /\ trace[Len(trace)] = "disconnect"
  THEN SubSeq(trace, 1, Len(trace) - 1) ELSE trace

\* the run is in the FAILED state: an exception is in flight or has reached
\* the caller, or the failed write was logged
Failed == error # "none" \/ write_result = "false"

\* C12: the calls of every run are a prefix of the stage order, each stage
\* once and none skipped but VALIDATE; a run that stops short of the last
\* stage is FAILED; the write is requested at most once, with the batch
\* ENRICH produced; the post-load count follows a successful write only.
C12_StageOrder ==
  runs > 0 =>
    /\ \E extract \in {"extract_csv", "extract_json"} : \E validated \in BOOLEAN :
         /\ IsPrefix(StagesDone, StageCalls(extract, validated))
         /\ (Returned /\ ~Failed) => StagesDone = StageCalls(extract, validated)
    /\ Cardinality({i \in 1..Len(trace) : trace[i] = "load_dataframe"}) <= 1
    /\ "load_dataframe" \in Range(trace) =>
         /\ write_request.df = enriched_data
         /\ enriched_data = EnrichData(validated_data, runs)
    /\ Cardinality({i \in 1..Len(trace) : trace[i] = "get_row_count"}) = 2 =>
         write_result = "ok"
    /\ (pc = "verify" \/ final_count # 0) => write_result = "ok"

C12_Witness ==
  /\ Returned /\ outcome = "returned" /\ ~Failed /\ runs = 2
  /\ trace = StageCalls("extract_json", TRUE) \o <<"disconnect">>
  /\ Len(write_request.df.rows) = 1

\* C13: a pre-load count that fails because the table does not exist does
\* not fail the run: initial_count is 0, the enriched batch is written in
\* append mode with create-if-missing set, and after a successful write the
\* run goes on to the post-load count.
C13_MissingTableIsNoError ==
  precount_result = "no_table" =>
    /\ initial_count = 0
    /\ pc = "load" => error = "none"
    /\ error # "none" => write_result \in {"ok", "raise"}
    /\ pc # "load" =>
         write_request = [df |-> enriched_data, if_exists |-> "append",
                          create_table |-> TRUE]
    /\ write_result = "ok" =>
         \/ pc = "verify"
         \/ StagesDone = StageCalls(trace[1], "validate_data" \in Range(trace))
    /\ (Returned /\ outcome = "returned" /\ write_result = "ok") =>
         rows_added = written

C13_Witness ==
  /\ precount_result = "no_table" /\ Returned /\ outcome = "returned"
  /\ write_result = "ok" /\ table = [exists |-> TRUE, rows |-> 1]
  /\ final_count = 1 /\ rows_added = 1

\* the errors of the source reader and of the transform stages
ExtractOrTransformErrors == {"ExtractError", "KeyError", "ValueError"}

\* C14: a run in which the source reader or a transform stage failed raises
\* that error to the caller without contacting the sink: no connection is
\* opened, no row count is queried, no write is requested, and no step of
\* the failed run changes the target table.
C14_SourceFailureLeavesSinkAlone ==
  /\ [](error \in ExtractOrTransformErrors =>
          /\ ~opened /\ conn # "open"
          /\ \A i \in 1..Len(trace) :
               trace[i] \notin {"connect", "get_row_count", "load_dataframe"}
          /\ write_request = NoRequest /\ write_result = "none"
          /\ pc \in {"except", "finally", "idle"}
          /\ Returned => outcome = "raised")
  /\ [][(error \in ExtractOrTransformErrors
           /\ error' \in ExtractOrTransformErrors) =>
          (table' = table /\ error' = error)]_vars

C14_Witness ==
  /\ Returned /\ outcome = "raised" /\ error = "ExtractError"
  /\ trace = <<"extract_csv", "disconnect">>
  /\ runs = 2 /\ conn = "closed" /\ table.exists

====
